---- MODULE Spec2Model ----
(***************************************************************************)
(* Model of main.py: a refresh thread that downloads a satellite image to  *)
(* data/satellite_image.jpg every four hours, and two HTTP handlers        *)
(* (GET /api, GET /api/image.jpg) that run concurrently with it and read   *)
(* that file.                                                              *)
(*                                                                         *)
(* The image file is modelled as the operating system presents it: opening *)
(* it "wb" creates or truncates it, a write appends bytes in one or more   *)
(* pieces, and f.read() (FileIO.readall) issues read calls until one       *)
(* returns no bytes.  A response body is a sequence of pieces; piece i of  *)
(* body b is <<b, i>>, so that a truncated or mixed value is recognisable. *)
(***************************************************************************)
EXTENDS Integers, Sequences, FiniteSets, TLC

\* ---------------------------------------------------------------- bounds
NumBodies == 2        \* distinct response bodies the remote may return
NumReaders == 1       \* requests that may be in flight at once
TicksPerSleep == 2    \* clock steps that make up one interval wait

\* ------------------------------------------------------------- constants
SleepSeconds == 4 * 3600
StatusOK == 200
NoResponse == 0
HttpOK == 200

Readers == 1..NumReaders
BodyIds == 1..NumBodies
Statuses == {StatusOK, 204, 404, 500}
TickStep == (SleepSeconds + TicksPerSleep - 1) \div TicksPerSleep

\* The bytes of response body b: b pieces, each tagged with its body.
Body(b) == [i \in 1..b |-> <<b, i>>]
\* The bytes of an image file left on disk by an earlier run.
PrevRunBody == << <<0, 1>> >>

\* ------------------------------------------------------------- responses
NoResp == [status |-> 0, media |-> "", content |-> <<>>, json |-> ""]
ImageResponse(content) ==
    [status |-> HttpOK, media |-> "image/jpeg", content |-> content, json |-> ""]
ErrorPayload404 ==
    [status |-> 404, media |-> "application/json", content |-> <<>>,
     json |-> "error: Imagem nao encontrada."]

ErrorPayload ==
    [status |-> HttpOK, media |-> "application/json", content |-> <<>>,
     json |-> "error: Imagem nao encontrada."]
WelcomePayload ==
    [status |-> HttpOK, media |-> "application/json", content |-> <<>>,
     json |-> "message: Bem-vindo ao Sat Norte de Minas Gerais"]

VARIABLES
    fileExists,   \* image_path.exists()
    fileData,     \* bytes of data/satellite_image.jpg
    serverUp,     \* startup_event has returned; requests are served
    threads,      \* number of refresh threads started
    tpc,          \* refresh thread: "init","get","open","write","ret","fail","sleep","dead"
    status,       \* response.status_code of the attempt (NoResponse if it raised)
    body,         \* id of response.content the attempt writes (0 if none)
    ioError,      \* open() or f.write() raised in this attempt
    result,       \* last return value of get_gibs_image: "none","True","False"
    remaining,    \* seconds time.sleep still has to wait
    rpc,          \* handler of request r: "idle","exists","open","read","done"
    rbuf,         \* bytes f.read() has collected so far
    resp,         \* response of request r
    \* history variables, read by no action's guard
    bootExists,   \* an image file existed when the process started
    fileAtStart,  \* <<fileExists, fileData>> when the current attempt began
    lastOk,       \* body id of the last attempt that returned True (0: none)
    clean,        \* no open-for-write has happened since that attempt returned
    wrote,        \* this process has opened the file for writing
    elapsed,      \* seconds passed since the last attempt returned
    rclean,       \* request r began while clean and no write has begun since
    winResp,      \* first answer to a request dispatched during the write in
                  \* progress (NoResp: none yet, or no write in progress)
    rwin          \* request r was dispatched during the write in progress

fileVars   == <<fileExists, fileData>>
loopVars   == <<threads, tpc, status, body, ioError, result, remaining>>
readerVars == <<rpc, rbuf, resp>>
histVars   == <<bootExists, fileAtStart, lastOk, clean, wrote, elapsed, rclean>>
obsVars    == <<winResp, rwin>>
vars == <<fileExists, fileData, serverUp, threads, tpc, status, body, ioError,
          result, remaining, rpc, rbuf, resp, bootExists, fileAtStart, lastOk,
          clean, wrote, elapsed, rclean, winResp, rwin>>

\* DATA_DIR.mkdir(exist_ok=True): the directory is kept, and with it any
\* image file of an earlier run.
Init ==
    /\ fileExists \in BOOLEAN
    /\ fileData = IF fileExists THEN PrevRunBody ELSE <<>>
    /\ serverUp = FALSE
    /\ threads = 0
    /\ tpc = "init"
    /\ status = NoResponse
    /\ body = 0
    /\ ioError = FALSE
    /\ result = "none"
    /\ remaining = 0
    /\ rpc = [r \in Readers |-> "idle"]
    /\ rbuf = [r \in Readers |-> <<>>]
    /\ resp = [r \in Readers |-> NoResp]
    /\ bootExists = fileExists
    /\ fileAtStart = <<fileExists, fileData>>
    /\ lastOk = 0
    /\ clean = FALSE
    /\ wrote = FALSE
    /\ elapsed = 0
    /\ rclean = [r \in Readers |-> FALSE]
    /\ winResp = NoResp
    /\ rwin = [r \in Readers |-> FALSE]

\* a write in progress ends (completed or raised), or a new one begins:
\* what was observed during the previous one is dropped.
WindowReset ==
    /\ winResp' = NoResp
    /\ rwin' = [r \in Readers |-> FALSE]

\* request r is answered with response a.
Observe(r, a) ==
    winResp' = IF rwin[r] /\ winResp = NoResp THEN a ELSE winResp

\* ------------------------------------------------------- refresh thread
StartupEventInline ==
    /\ ~serverUp /\ threads = 0
    /\ threads' = threads + 1
    /\ tpc' = "get"
    /\ serverUp' = FALSE
    /\ fileAtStart' = <<fileExists, fileData>>
    /\ UNCHANGED <<fileVars, status, body, ioError, result, remaining,
                   readerVars, bootExists, lastOk, clean, wrote, elapsed, rclean>>
    /\ UNCHANGED obsVars

StartupEventSleepFirst ==
    /\ ~serverUp /\ threads = 0
    /\ threads' = threads + 1
    /\ tpc' = "sleep"
    /\ remaining' = SleepSeconds
    /\ serverUp' = TRUE
    /\ UNCHANGED <<fileVars, status, body, ioError, result, readerVars, histVars>>
    /\ UNCHANGED obsVars

StartupEventTwice ==
    /\ threads < 2
    /\ threads' = threads + 1
    /\ tpc' = "get"
    /\ serverUp' = TRUE
    /\ fileAtStart' = <<fileExists, fileData>>
    /\ UNCHANGED <<fileVars, status, body, ioError, result, remaining,
                   readerVars, bootExists, lastOk, clean, wrote, elapsed, rclean>>
    /\ UNCHANGED obsVars

\* startup_event: start the daemon thread and return; the thread enters
\* the loop and get_gibs_image issues requests.get.
StartupEvent ==
    /\ ~serverUp /\ threads = 0
    /\ threads' = threads + 1
    /\ tpc' = "get"
    /\ serverUp' = TRUE
    /\ fileAtStart' = <<fileExists, fileData>>
    /\ UNCHANGED <<fileVars, status, body, ioError, result, remaining,
                   readerVars, bootExists, lastOk, clean, wrote, elapsed, rclean>>
    /\ UNCHANGED obsVars

EnterSleepShort ==
    /\ tpc' = "sleep"
    /\ remaining' = 3600
    /\ elapsed' = 0

\* time.sleep(4 * 3600) after get_gibs_image returned.
EnterSleep ==
    /\ tpc' = "sleep"
    /\ remaining' = SleepSeconds
    /\ elapsed' = 0

\* what an attempt leaves behind once get_gibs_image has returned: its
\* locals are gone.
AttemptOver ==
    /\ status' = NoResponse
    /\ body' = 0
    /\ ioError' = FALSE
    /\ fileAtStart' = <<FALSE, <<>>>>

ReturnFalseEscapes ==
    /\ tpc = "fail"
    /\ result' = "False"
    /\ tpc' = "dead"
    /\ AttemptOver
    /\ UNCHANGED <<fileVars, serverUp, threads, remaining, elapsed, readerVars,
                   bootExists, lastOk, clean, wrote, rclean>>
    /\ UNCHANGED obsVars

\* the except or else branch has printed its message: return False (lines 53
\* and 57), then the loop's sleep.
ReturnFalse ==
    /\ tpc = "fail"
    /\ result' = "False"
    /\ EnterSleep
    /\ AttemptOver
    /\ UNCHANGED <<fileVars, serverUp, threads, readerVars, bootExists, lastOk,
                   clean, wrote, rclean>>
    /\ UNCHANGED obsVars

IsSuccess2xx(s) == s >= 200 /\ s < 300

\* response.status_code == 200
IsSuccess(s) == s = StatusOK

\* requests.get returns a response; the status decides the branch.
RequestsGet(s, b) ==
    /\ tpc = "get"
    /\ status' = s
    /\ body' = IF IsSuccess(s) THEN b ELSE 0
    /\ tpc' = IF IsSuccess(s) THEN "open" ELSE "fail"
    /\ UNCHANGED <<fileVars, serverUp, threads, ioError, result, remaining,
                   readerVars, histVars>>
    /\ UNCHANGED obsVars

\* requests.get raises (DNS, connection, timeout): caught at line 55.
RequestsRaise ==
    /\ tpc = "get"
    /\ tpc' = "fail"
    /\ UNCHANGED <<fileVars, serverUp, threads, status, body, ioError, result,
                   remaining, readerVars, histVars>>
    /\ UNCHANGED obsVars

\* open(image_path, "wb"): creates the file or truncates it to length 0.
OpenWb ==
    /\ tpc = "open"
    /\ fileExists' = TRUE
    /\ fileData' = <<>>
    /\ tpc' = "write"
    /\ clean' = FALSE
    /\ wrote' = TRUE
    /\ rclean' = [r \in Readers |-> FALSE]
    /\ UNCHANGED <<serverUp, threads, status, body, ioError, result, remaining,
                   readerVars, bootExists, fileAtStart, lastOk, elapsed>>
    /\ WindowReset

\* open raises (e.g. permission denied) before touching the file.
OpenRaise ==
    /\ tpc = "open"
    /\ ioError' = TRUE
    /\ tpc' = "fail"
    /\ UNCHANGED <<fileVars, serverUp, threads, status, body, result, remaining,
                   readerVars, histVars>>
    /\ UNCHANGED obsVars

\* f.write(response.content) and the flush on leaving the with block: the
\* next k pieces of the body reach the file.
WriteChunk(k) ==
    /\ tpc = "write"
    /\ Len(fileData) + k <= Len(Body(body))
    /\ fileData' = fileData \o SubSeq(Body(body), Len(fileData) + 1, Len(fileData) + k)
    /\ tpc' = IF Len(fileData') = Len(Body(body)) THEN "ret" ELSE "write"
    /\ UNCHANGED <<fileExists, serverUp, threads, status, body, ioError, result,
                   remaining, readerVars, histVars>>
    /\ IF tpc' = "ret" THEN WindowReset ELSE UNCHANGED <<winResp, rwin>>

WriteRaiseUnlink ==
    /\ tpc = "write"
    /\ ioError' = TRUE
    /\ tpc' = "fail"
    /\ fileExists' = FALSE
    /\ fileData' = <<>>
    /\ UNCHANGED <<serverUp, threads, status, body, result, remaining,
                   readerVars, histVars>>
    /\ WindowReset

\* the write or the flush raises (e.g. disk full): caught at line 55, after
\* the file was truncated.
WriteRaise ==
    /\ tpc = "write"
    /\ ioError' = TRUE
    /\ tpc' = "fail"
    /\ UNCHANGED <<fileVars, serverUp, threads, status, body, result, remaining,
                   readerVars, histVars>>
    /\ WindowReset

\* the with block is left and the message printed: return True (line 50),
\* then the loop's sleep.
ReturnTrue ==
    /\ tpc = "ret"
    /\ result' = "True"
    /\ lastOk' = body
    /\ clean' = TRUE
    /\ EnterSleep
    /\ AttemptOver
    /\ UNCHANGED <<fileVars, serverUp, threads, readerVars, bootExists, wrote,
                   rclean>>
    /\ UNCHANGED obsVars

\* the clock advances while the thread sleeps.
Tick ==
    /\ tpc = "sleep"
    /\ remaining > 0
    /\ remaining' = IF remaining > TickStep THEN remaining - TickStep ELSE 0
    /\ elapsed' = elapsed + TickStep
    /\ UNCHANGED <<fileVars, serverUp, threads, tpc, status, body, ioError,
                   result, readerVars, bootExists, fileAtStart, lastOk, clean,
                   wrote, rclean>>
    /\ UNCHANGED obsVars

\* time.sleep returns; while True calls get_gibs_image again.
WakeUp ==
    /\ tpc = "sleep"
    /\ remaining = 0
    /\ tpc' = "get"
    /\ fileAtStart' = <<fileExists, fileData>>
    /\ UNCHANGED <<fileVars, serverUp, threads, status, body, ioError, result,
                   remaining, readerVars, bootExists, lastOk, clean, wrote,
                   elapsed, rclean>>
    /\ UNCHANGED obsVars

LoopStep ==
    \/ \E s \in Statuses, b \in BodyIds : RequestsGet(s, b)
    \/ RequestsRaise
    \/ OpenWb
    \/ OpenRaise
    \/ \E k \in 1..NumBodies : WriteChunk(k)
    \/ WriteRaise
    \/ ReturnTrue
    \/ ReturnFalse
    \/ Tick
    \/ WakeUp

\* ------------------------------------------------------------- handlers
\* GET /api
Root(r) ==
    /\ serverUp
    /\ rpc[r] = "idle"
    /\ rpc' = [rpc EXCEPT ![r] = "done"]
    /\ resp' = [resp EXCEPT ![r] = WelcomePayload]
    /\ UNCHANGED <<fileVars, serverUp, loopVars, rbuf, histVars>>
    /\ UNCHANGED obsVars

\* GET /api/image.jpg is dispatched to get_image.
GetImage(r) ==
    /\ serverUp
    /\ rpc[r] = "idle"
    /\ rpc' = [rpc EXCEPT ![r] = "exists"]
    /\ rclean' = [rclean EXCEPT ![r] = clean]
    /\ UNCHANGED <<fileVars, serverUp, loopVars, rbuf, resp, bootExists,
                   fileAtStart, lastOk, clean, wrote, elapsed>>
    /\ rwin' = [rwin EXCEPT ![r] = (tpc = "write")]
    /\ UNCHANGED winResp

ExistsNever(r) ==
    /\ rpc[r] = "exists"
    /\ rpc' = [rpc EXCEPT ![r] = "done"]
    /\ resp' = [resp EXCEPT ![r] = ErrorPayload]
    /\ UNCHANGED <<fileVars, serverUp, loopVars, rbuf, histVars>>
    /\ UNCHANGED obsVars

\* if image_path.exists(): ... else: return {"error": ...}
Exists(r) ==
    /\ rpc[r] = "exists"
    /\ IF fileExists
         THEN /\ rpc' = [rpc EXCEPT ![r] = "open"]
              /\ UNCHANGED <<resp, winResp>>
         ELSE /\ rpc' = [rpc EXCEPT ![r] = "done"]
              /\ resp' = [resp EXCEPT ![r] = ErrorPayload]
              /\ Observe(r, ErrorPayload)
    /\ UNCHANGED <<fileVars, serverUp, loopVars, rbuf, histVars>>
    /\ UNCHANGED rwin

OpenRbTouch(r) ==
    /\ rpc[r] = "open"
    /\ rpc' = [rpc EXCEPT ![r] = "read"]
    /\ rbuf' = [rbuf EXCEPT ![r] = <<>>]
    /\ fileData' = <<>>
    /\ UNCHANGED <<fileExists, serverUp, loopVars, resp, histVars>>
    /\ UNCHANGED obsVars

\* open(image_path, "rb"): the file is never removed, so it is still there.
OpenRb(r) ==
    /\ rpc[r] = "open"
    /\ rpc' = [rpc EXCEPT ![r] = "read"]
    /\ rbuf' = [rbuf EXCEPT ![r] = <<>>]
    /\ UNCHANGED <<fileVars, serverUp, loopVars, resp, histVars>>
    /\ UNCHANGED obsVars

ReadAtShort(data, off) ==
    IF off + 1 >= Len(data) THEN <<>> ELSE SubSeq(data, off + 1, Len(data))

\* what one read call at offset off returns: the bytes from there to the
\* current end of the file.
ReadAt(data, off) ==
    IF off >= Len(data) THEN <<>> ELSE SubSeq(data, off + 1, Len(data))

\* f.read(): one read call; the call that returns nothing ends the read and
\* the handler returns Response(content, media_type="image/jpeg").
Read(r) ==
    /\ rpc[r] = "read"
    /\ LET got == ReadAt(fileData, Len(rbuf[r])) IN
         IF got = <<>>
           THEN /\ rpc' = [rpc EXCEPT ![r] = "done"]
                /\ resp' = [resp EXCEPT ![r] = ImageResponse(rbuf[r])]
                /\ Observe(r, ImageResponse(rbuf[r]))
                /\ UNCHANGED rbuf
           ELSE /\ rbuf' = [rbuf EXCEPT ![r] = rbuf[r] \o got]
                /\ UNCHANGED <<rpc, resp, winResp>>
    /\ UNCHANGED <<fileVars, serverUp, loopVars, histVars>>
    /\ UNCHANGED rwin

\* the response has been sent; the slot serves the next request.
Finish(r) ==
    /\ rpc[r] = "done"
    /\ rpc' = [rpc EXCEPT ![r] = "idle"]
    /\ rbuf' = [rbuf EXCEPT ![r] = <<>>]
    /\ resp' = [resp EXCEPT ![r] = NoResp]
    /\ rclean' = [rclean EXCEPT ![r] = FALSE]
    /\ UNCHANGED <<fileVars, serverUp, loopVars, bootExists, fileAtStart,
                   lastOk, clean, wrote, elapsed>>
    /\ rwin' = [rwin EXCEPT ![r] = FALSE]
    /\ UNCHANGED winResp

HandlerStep(r) ==
    \/ Root(r)
    \/ GetImage(r)
    \/ Exists(r)
    \/ OpenRb(r)
    \/ Read(r)
    \/ Finish(r)

Next ==
    \/ StartupEvent
    \/ LoopStep
    \/ \E r \in Readers : HandlerStep(r)

Spec == Init /\ [][Next]_vars

\* The loop with the fairness its scheduling gives: the server starts, every
\* call the thread makes (requests.get, open, write, time.sleep) returns, and
\* the thread is scheduled.  The loop's progress does not involve the
\* handlers, so one request slot is kept.
LiveNext ==
    \/ StartupEvent
    \/ LoopStep
    \/ HandlerStep(1)

LiveSpec == Init /\ [][LiveNext]_vars /\ WF_vars(StartupEvent) /\ WF_vars(LoopStep)

TypeOK ==
    /\ fileExists \in BOOLEAN
    /\ tpc \in {"init", "get", "open", "write", "ret", "fail", "sleep", "dead"}
    /\ status \in Statuses \cup {NoResponse}
    /\ body \in 0..NumBodies
    /\ result \in {"none", "True", "False"}
    /\ remaining \in 0..SleepSeconds
    /\ \A r \in Readers : rpc[r] \in {"idle", "exists", "open", "read", "done"}

\* ================================================================ claims
\* values a reader may legitimately see: a whole response body, or the whole
\* file an earlier run left behind.
CompleteValues == {Body(b) : b \in BodyIds} \cup {PrevRunBody}

\* handler of request r produces the response of GET /api/image.jpg in this step
Answers(r) == rpc[r] \in {"exists", "read"} /\ rpc'[r] = "done"

\* C1: the body of every image response is a complete value (the one held
\* before a write began or the one being installed), never an empty,
\* truncated or mixed one.
C1_ReaderSeesWholeValue ==
    \A r \in Readers :
        (rpc[r] = "done" /\ resp[r].media = "image/jpeg")
            => resp[r].content \in CompleteValues

\* C2: when an attempt ends in failure (it is about to return False), the
\* image file is exactly what it was when the attempt began.
C2_FailureLeavesStoreUntouched ==
    tpc = "fail" => <<fileExists, fileData>> = fileAtStart

\* C3: a GET /api/image.jpg handled after the Nth successful fetch returned
\* and before any later write begins answers 200, image/jpeg, with exactly
\* the body of that fetch.
C3_ReadReturnsLastFetched ==
    \A r \in Readers :
        (rpc[r] = "done" /\ rclean[r])
            => /\ lastOk # 0
               /\ resp[r] = ImageResponse(Body(lastOk))
               /\ resp[r].status = 200
               /\ resp[r].media = "image/jpeg"

\* C3 witness: a request answered with the body of the last successful
\* fetch, which replaced the different value the file held before, while
\* the loop sleeps after a later failed attempt.
C3_Witness ==
    \E r \in Readers :
        /\ rpc[r] = "done" /\ rclean[r]
        /\ bootExists /\ lastOk = 2 /\ result = "False"
        /\ resp[r].content = Body(2)

\* C4: started with no image file, every GET /api/image.jpg answered before
\* the first fetch has returned True gets the not-available payload.
C4_AbsentBeforeFirstSuccess ==
    [][\A r \in Readers :
          (~bootExists /\ lastOk = 0 /\ Answers(r)) => resp'[r] = ErrorPayload]_vars

\* C5 (as stated): with an image file of an earlier run on disk, a GET
\* /api/image.jpg answered before this process has written anything gets the
\* not-available payload.
C5_FreshStartIsEmpty ==
    [][\A r \in Readers :
          (bootExists /\ ~wrote /\ Answers(r)) => resp'[r] = ErrorPayload]_vars

\* C5 (amended): until this process first opens the image file for writing,
\* a GET /api/image.jpg answers with the bytes of the file an earlier run
\* left on disk if there is one, and with the not-available payload only if
\* there is none.
C5_BootFileIsServed ==
    [][\A r \in Readers :
          (~wrote /\ Answers(r))
              => resp'[r] = IF bootExists THEN ImageResponse(PrevRunBody)
                                          ELSE ErrorPayload]_vars

\* C5 witness: the file of an earlier run has been served before any write.
C5_Witness ==
    \E r \in Readers :
        /\ bootExists /\ ~wrote /\ rpc[r] = "done"
        /\ resp[r] = ImageResponse(PrevRunBody)

\* C6 (as stated): an attempt ends in success (about to return True) if
\* and only if the remote status is exactly 200.
C6_SuccessIffStatus200 ==
    tpc \in {"ret", "fail"} => (tpc = "ret" <=> status = StatusOK)

\* C6 (amended): an attempt ends in success if and only if the remote status
\* is exactly 200 and opening and writing the image file raised nothing;
\* when it does the file holds the whole response body; a status other than
\* 200 or a transport error ends in failure with the file untouched; no
\* exception leaves the attempt.
C6_SuccessIffStatus200AndWritten ==
    /\ tpc # "dead"
    /\ tpc \in {"ret", "fail"} =>
         /\ tpc = "ret" <=> (status = StatusOK /\ ~ioError)
         /\ tpc = "ret" => (fileExists /\ fileData = Body(body))
         /\ status # StatusOK =>
              (tpc = "fail" /\ <<fileExists, fileData>> = fileAtStart)
    /\ tpc = "sleep" => result \in {"True", "False"}

\* C6 witness: a 200 response whose write raised ends in failure.
C6_Witness ==
    tpc = "fail" /\ status = StatusOK /\ ioError /\ wrote

\* C7: the refresh thread never terminates, and after every attempt, failed
\* or successful, a further attempt eventually starts.
C7_LoopNeverStops ==
    /\ [](threads > 0 => tpc \in {"get", "open", "write", "ret", "fail", "sleep"})
    /\ []<>(tpc = "get")
    /\ (tpc = "sleep" /\ result = "False") ~> (tpc = "get")
    /\ (tpc = "sleep" /\ result = "True") ~> (tpc = "get")

\* C7 witness: an attempt is in flight after the previous one failed.
C7_Witness == tpc = "get" /\ result = "False" /\ threads = 1

\* C8: every wait is requested for the full 14,400 seconds, after a failure
\* as after a success, and the next attempt starts only when it has elapsed.
C8_FullDelayBetweenAttempts ==
    [][/\ (tpc # "sleep" /\ tpc' = "sleep") => remaining' = 14400
       /\ (tpc = "sleep" /\ tpc' = "get")
            => (elapsed >= 14400 /\ elapsed < 14400 + TickStep)]_vars

\* C8 witness: an attempt that started a full delay after a failed one.
C8_Witness ==
    tpc = "open" /\ result = "False" /\ elapsed >= 14400

\* C9: once the refresh loop has been started, in every state (a fetch in
\* flight, a write in progress, the interval sleep) each request slot can
\* take its next step: accept a request, or continue the one it handles.
C9_RequestsNeverBlocked ==
    threads > 0 => \A r \in Readers : ENABLED HandlerStep(r)

\* C9 witness: a request answered while the first fetch is still in flight.
C9_Witness ==
    /\ tpc = "get" /\ result = "none"
    /\ \E r \in Readers : rpc[r] = "done" /\ resp[r] # NoResp

\* C10: a step of a handler (any step that moves a request forward) changes
\* neither the image file nor the refresh loop's state nor starts a loop,
\* and the file changes only in the refresh thread's open and write steps.
C10_HandlersReadOnly ==
    [][/\ readerVars' # readerVars
            => UNCHANGED <<fileVars, loopVars, serverUp>>
       /\ fileVars' # fileVars
            => (tpc \in {"open", "write"} /\ UNCHANGED readerVars)]_vars

\* C10 witness: a request has been answered with an image while the thread
\* is in the middle of a later write.
C10_Witness ==
    /\ tpc = "write" /\ lastOk # 0
    /\ \E r \in Readers : rpc[r] = "done" /\ resp[r].media = "image/jpeg"

\* C11: with no image file, GET /api/image.jpg answers the JSON payload
\* {"error": <message>} under status 200, the status of an image response,
\* told apart from one by its content type and body; GET /api answers 200
\* with the welcome message in whatever state it is handled.
C11_ErrorPayloadUnder200 ==
    [][\A r \in Readers :
          /\ (rpc[r] = "exists" /\ ~fileExists /\ rpc'[r] = "done")
                => /\ resp'[r].status = 200
                   /\ resp'[r].status = ImageResponse(<<>>).status
                   /\ resp'[r].media = "application/json"
                   /\ resp'[r].json = "error: Imagem nao encontrada."
                   /\ resp'[r].content = <<>>
          /\ (rpc[r] = "idle" /\ rpc'[r] = "done")
                => /\ resp'[r].status = 200
                   /\ resp'[r].media = "application/json"
                   /\ resp'[r].json = "message: Bem-vindo ao Sat Norte de Minas Gerais"]_vars

\* C11 witness: the not-available payload answered after a failed attempt
\* left the process without an image file.
C11_Witness ==
    /\ ~fileExists /\ tpc = "sleep" /\ result = "False"
    /\ \E r \in Readers : rpc[r] = "done" /\ resp[r] = ErrorPayload

\* C13: the refresh loop is started once, together with the server; the
\* thread's first step out of its start is a fetch attempt, a wait is only
\* entered when an attempt has ended, and a wait is only left for a fetch.
C13_FetchBeforeFirstWait ==
    [][/\ threads' <= 1
       /\ serverUp' => threads' = 1
       /\ (tpc = "init" /\ tpc' # "init") => tpc' = "get"
       /\ (tpc # "sleep" /\ tpc' = "sleep") => tpc \in {"ret", "fail"}
       /\ (tpc = "sleep" /\ tpc' # "sleep") => tpc' = "get"]_vars

\* C13 witness: the first fetch has got its response and no wait has been
\* made yet.
C13_Witness ==
    threads = 1 /\ tpc = "open" /\ result = "none" /\ elapsed = 0

\* C14: one refresh loop exists at most, and it starts an attempt only from
\* its start or out of a wait that has fully elapsed, which it entered when
\* the previous attempt, its write included, had ended; the file is opened
\* for writing only by an attempt that has its response.
C14_OneAttemptAtATime ==
    [][/\ threads' <= 1
       /\ (tpc # "get" /\ tpc' = "get")
            => \/ tpc = "init"
               \/ tpc = "sleep" /\ remaining = 0 /\ elapsed >= 14400
       /\ (tpc # "write" /\ tpc' = "write") => tpc = "open"
       /\ (tpc = "write" /\ tpc' # "write") => tpc' \in {"ret", "fail"}
       /\ (tpc \in {"ret", "fail"} /\ tpc' # tpc) => tpc' = "sleep"]_vars

\* C14 witness: a second write is in progress, after the first one ended and
\* the wait elapsed.
C14_Witness ==
    threads = 1 /\ tpc = "write" /\ lastOk # 0 /\ elapsed >= 14400

\* C12 (the case of a write in progress): two GET /api/image.jpg requests
\* dispatched and answered while one write is in progress, after its open
\* and before it completes or raises, so that no write starts or completes
\* between them, get identical responses.
C12_ReadIdempotent ==
    [][\A r \in Readers :
          (Answers(r) /\ rwin[r] /\ winResp # NoResp) => resp'[r] = winResp]_vars

\* C15: an image response is returned only when the image file exists; the
\* file, once it exists, is overwritten but never removed; and while it
\* exists no GET /api/image.jpg is answered with the not-available payload.
\* So once a request has returned an image response, every later one does.
C15_ServableStaysServable ==
    [][/\ fileExists => fileExists'
       /\ \A r \in Readers :
            /\ (Answers(r) /\ resp'[r].media = "image/jpeg") => fileExists
            /\ (Answers(r) /\ fileExists)
                 => (resp'[r] # ErrorPayload /\ resp'[r].media = "image/jpeg")]_vars

\* C15 witness: after a fetch had succeeded, a later attempt failed in its
\* write, and a request that followed still got an image response.
C15_Witness ==
    /\ lastOk # 0 /\ tpc = "sleep" /\ result = "False" /\ fileData = <<>>
    /\ \E r \in Readers : rpc[r] = "done" /\ resp[r] = ImageResponse(<<>>)
====
